---- MODULE Spec2Model ----
(***************************************************************************)
(* Model of the control core of the ESP32S3 light node:                    *)
(*   - the PM2.5 frame decoder          (lib/pm2dot5/getPM2dot5.cpp)       *)
(*   - the battery percentage estimator (lib/adcReading/adcReading.cpp)    *)
(*   - the motion latch and the brightness controller                      *)
(*                                      (lib/brightnessConfig, taskCreate) *)
(***************************************************************************)
EXTENDS Integers, Sequences, FiniteSets, TLC

VARIABLES
    \* ---- PM2.5 decoder (getPM2dot5.cpp) ----
    script,              \* the bytes the sensor sends in this run, and where the frame under test starts
    arrived,             \* number of bytes of script already received by UART2
    rxq,                 \* bytes pending in the Serial2 receive FIFO
    pm25_pc,             \* position of pm25DataTask: "idle" (vTaskDelay) or "loop" (inside pm25_update)
    rx_buffer,           \* static uint8_t rx_buffer[4]
    buffer_index,        \* static int buffer_index
    header_found,        \* static bool header_found
    pm25_concentration,  \* uint16_t pm25_concentration
    pm25_data_ready,     \* bool pm25_data_ready
    frameCount,          \* number of packets that passed validate_packet so far
    \* ---- battery estimator (adcReading.cpp) ----
    battery_mV,          \* int battery_mV
    battery_percentage,  \* int battery_percentage
    \* ---- motion latch and brightness controller (brightnessConfig.cpp, taskCreate.cpp) ----
    now,                 \* millis(): the 32-bit millisecond clock, <<high 16 bits, low 16 bits>>
    lux,                 \* float lux, the last ambient light reading
    isMove,              \* volatile bool isMove
    lastMotionTime,      \* static uint32_t lastMotionTime, <<high, low>>
    currentBrightness,   \* uint8_t currentBrightness
    targetBrightness,    \* uint8_t targetBrightness
    baseBrightness,      \* uint8_t baseBrightness
    brightnessStep,      \* static int16_t brightnessStep
    isRising,            \* static bool isRising
    isFalling,           \* static bool isFalling
    startBrightness,     \* static uint8_t startBrightness
    isAuto,              \* bool isAuto
    brightness,          \* uint8_t brightness, the manual value
    brightnessAuto,      \* uint8_t brightnessAuto
    leds,                \* the grey level last written to the LED strip
    ls_pc,               \* position of lightSetTask: "delay", or inside the expiry check
    currentTime,         \* uint32_t currentTime, local of updateBrightness, <<high, low>>
    rdMove,              \* the value of isMove loaded by the expiry check ("none" before)
    rdLast,              \* the value of lastMotionTime loaded by the expiry check ("none" before)
    \* ---- MQTT connection retry (mqttConfig.cpp, taskCreate.cpp) ----
    ms,                  \* millis() as the MQTT tasks read it, in ms since the start
    wifiConnected,       \* WiFi.status() == WL_CONNECTED
    mqttConnected,       \* mqttClient.connected()
    retryCount,          \* static uint8_t retryCount
    lastConnectAttempt,  \* static unsigned long lastConnectAttempt
    resetTime,           \* static unsigned long resetTime, local of mqttConnect
    mq_pc,               \* position of each MQTT task inside mqttConnect ("idle" outside)
    mq_now,              \* unsigned long now, local of mqttConnect, per task
    lastAttempt,         \* history: the time the latest connection attempt was decided at (-1: none)
    limitReached         \* history: the retry limit was reached since the latest attempt started

decVars == <<script, arrived, rxq, pm25_pc, rx_buffer, buffer_index,
             header_found, pm25_concentration, pm25_data_ready, frameCount>>
batVars == <<battery_mV, battery_percentage>>
motionVars == <<isMove, lastMotionTime>>
curveVars == <<currentBrightness, targetBrightness, baseBrightness, brightnessStep,
               isRising, isFalling, startBrightness, brightnessAuto, leds>>
modeVars == <<isAuto, brightness>>
pollVars == <<ls_pc, currentTime, rdMove, rdLast>>
lightVars == <<now, lux, motionVars, curveVars, modeVars, pollVars>>
mqttVars == <<ms, wifiConnected, mqttConnected, retryCount, lastConnectAttempt, resetTime,
              mq_pc, mq_now, lastAttempt, limitReached>>
vars == <<decVars, batVars, lightVars, mqttVars>>

(***************************************************************************)
(* PM2.5 frame decoder                                                     *)
(***************************************************************************)
PM25_HEADER == 165
PM25_PACKET_SIZE == 4

\* capacity of the modelled part of the Serial2 receive FIFO
RxCap == 3

Byte == 0..255
Data7 == 0..127

\* (header + dataH + dataL) & 0x7F, stored in a uint8_t
CalculatedSum(packet) == ((packet[0] + packet[1] + packet[2]) % 128) % 256

\* mutant: the received checksum is masked to 7 bits before the comparison
validate_packet_masked(packet) == CalculatedSum(packet) = packet[3] % 128

\* mutant: the sum is compared without the 7-bit mask
validate_packet_nomask(packet) == (packet[0] + packet[1] + packet[2]) % 256 = packet[3]

validate_packet(packet) == CalculatedSum(packet) = packet[3]

\* mutant: the high byte is shifted by 8 bits instead of 7
calculate_concentration_shift8(dataH, dataL) == (dataH * 256 + dataL) % 65536

calculate_concentration(dataH, dataL) == (dataH * 128 + dataL) % 65536

\* process_packet, as a function of the completed buffer: the new values of
\* pm25_concentration, pm25_data_ready and the count of valid frames
process_packet(buf) ==
    IF validate_packet(buf)
    THEN [conc |-> calculate_concentration(buf[1], buf[2]), ready |-> TRUE, valid |-> 1]
    ELSE [conc |-> pm25_concentration, ready |-> pm25_data_ready, valid |-> 0]

\* a well-formed frame and the same frame with its 4th byte replaced
GoodFrame(h, l) == <<PM25_HEADER, h, l, (PM25_HEADER + h + l) % 128>>
BadFrame(h, l, c) == <<PM25_HEADER, h, l, c>>

\* bytes consumed by the decoder so far
fed == arrived - Len(rxq)

\* UART2 receives the next byte of the script into the FIFO
SerialArrive ==
    /\ arrived < Len(script.bytes)
    /\ Len(rxq) < RxCap
    /\ rxq' = Append(rxq, script.bytes[arrived + 1])
    /\ arrived' = arrived + 1
    /\ UNCHANGED <<script, pm25_pc, rx_buffer, buffer_index, header_found,
                   pm25_concentration, pm25_data_ready, frameCount>>
    /\ UNCHANGED <<batVars, lightVars>>
    /\ UNCHANGED mqttVars

\* pm25DataTask wakes up and calls pm25_update()
pm25_update_call ==
    /\ pm25_pc = "idle"
    /\ pm25_pc' = "loop"
    /\ UNCHANGED <<script, arrived, rxq, rx_buffer, buffer_index, header_found,
                   pm25_concentration, pm25_data_ready, frameCount>>
    /\ UNCHANGED <<batVars, lightVars>>
    /\ UNCHANGED mqttVars

\* mutant: a completed packet resets the index but stays in the receiving state
pm25_update_byte_noreset ==
    /\ pm25_pc = "loop"
    /\ rxq # <<>>
    /\ LET byte == Head(rxq) IN
         /\ rxq' = Tail(rxq)
         /\ IF ~header_found
            THEN IF byte = PM25_HEADER
                 THEN /\ rx_buffer' = [rx_buffer EXCEPT ![0] = byte]
                      /\ buffer_index' = 1
                      /\ header_found' = TRUE
                      /\ UNCHANGED <<pm25_concentration, pm25_data_ready, frameCount>>
                 ELSE UNCHANGED <<rx_buffer, buffer_index, header_found,
                                  pm25_concentration, pm25_data_ready, frameCount>>
            ELSE LET buf == [rx_buffer EXCEPT ![buffer_index] = byte]
                     idx == buffer_index + 1
                 IN  /\ rx_buffer' = buf
                     /\ IF idx >= PM25_PACKET_SIZE
                        THEN LET r == process_packet(buf) IN
                             /\ pm25_concentration' = r.conc
                             /\ pm25_data_ready' = r.ready
                             /\ frameCount' = frameCount + r.valid
                             /\ buffer_index' = 0
                             /\ header_found' = TRUE
                        ELSE /\ buffer_index' = idx
                             /\ UNCHANGED <<header_found, pm25_concentration,
                                            pm25_data_ready, frameCount>>
    /\ UNCHANGED <<script, arrived, pm25_pc>>
    /\ UNCHANGED <<batVars, lightVars>>
    /\ UNCHANGED mqttVars

\* mutant: the packet is taken as complete one byte too late
pm25_update_byte_gt ==
    /\ pm25_pc = "loop"
    /\ rxq # <<>>
    /\ LET byte == Head(rxq) IN
         /\ rxq' = Tail(rxq)
         /\ IF ~header_found
            THEN IF byte = PM25_HEADER
                 THEN /\ rx_buffer' = [rx_buffer EXCEPT ![0] = byte]
                      /\ buffer_index' = 1
                      /\ header_found' = TRUE
                      /\ UNCHANGED <<pm25_concentration, pm25_data_ready, frameCount>>
                 ELSE UNCHANGED <<rx_buffer, buffer_index, header_found,
                                  pm25_concentration, pm25_data_ready, frameCount>>
            ELSE LET buf == [rx_buffer EXCEPT ![buffer_index] = byte]
                     idx == buffer_index + 1
                 IN  /\ rx_buffer' = buf
                     /\ IF idx > PM25_PACKET_SIZE
                        THEN LET r == process_packet(buf) IN
                             /\ pm25_concentration' = r.conc
                             /\ pm25_data_ready' = r.ready
                             /\ frameCount' = frameCount + r.valid
                             /\ buffer_index' = 0
                             /\ header_found' = FALSE
                        ELSE /\ buffer_index' = idx
                             /\ UNCHANGED <<header_found, pm25_concentration,
                                            pm25_data_ready, frameCount>>
    /\ UNCHANGED <<script, arrived, pm25_pc>>
    /\ UNCHANGED <<batVars, lightVars>>
    /\ UNCHANGED mqttVars

\* mutant: while searching, any byte is taken as the header
pm25_update_byte_nosearch ==
    /\ pm25_pc = "loop"
    /\ rxq # <<>>
    /\ LET byte == Head(rxq) IN
         /\ rxq' = Tail(rxq)
         /\ IF ~header_found
            THEN IF byte \in Byte
                 THEN /\ rx_buffer' = [rx_buffer EXCEPT ![0] = byte]
                      /\ buffer_index' = 1
                      /\ header_found' = TRUE
                      /\ UNCHANGED <<pm25_concentration, pm25_data_ready, frameCount>>
                 ELSE UNCHANGED <<rx_buffer, buffer_index, header_found,
                                  pm25_concentration, pm25_data_ready, frameCount>>
            ELSE LET buf == [rx_buffer EXCEPT ![buffer_index] = byte]
                     idx == buffer_index + 1
                 IN  /\ rx_buffer' = buf
                     /\ IF idx >= PM25_PACKET_SIZE
                        THEN LET r == process_packet(buf) IN
                             /\ pm25_concentration' = r.conc
                             /\ pm25_data_ready' = r.ready
                             /\ frameCount' = frameCount + r.valid
                             /\ buffer_index' = 0
                             /\ header_found' = FALSE
                        ELSE /\ buffer_index' = idx
                             /\ UNCHANGED <<header_found, pm25_concentration,
                                            pm25_data_ready, frameCount>>
    /\ UNCHANGED <<script, arrived, pm25_pc>>
    /\ UNCHANGED <<batVars, lightVars>>
    /\ UNCHANGED mqttVars

\* one iteration of the while (Serial2.available()) loop of pm25_update
pm25_update_byte ==
    /\ pm25_pc = "loop"
    /\ rxq # <<>>
    /\ LET byte == Head(rxq) IN
         /\ rxq' = Tail(rxq)
         /\ IF ~header_found
            THEN IF byte = PM25_HEADER
                 THEN /\ rx_buffer' = [rx_buffer EXCEPT ![0] = byte]
                      /\ buffer_index' = 1
                      /\ header_found' = TRUE
                      /\ UNCHANGED <<pm25_concentration, pm25_data_ready, frameCount>>
                 ELSE UNCHANGED <<rx_buffer, buffer_index, header_found,
                                  pm25_concentration, pm25_data_ready, frameCount>>
            ELSE LET buf == [rx_buffer EXCEPT ![buffer_index] = byte]
                     idx == buffer_index + 1
                 IN  /\ rx_buffer' = buf
                     /\ IF idx >= PM25_PACKET_SIZE
                        THEN LET r == process_packet(buf) IN
                             /\ pm25_concentration' = r.conc
                             /\ pm25_data_ready' = r.ready
                             /\ frameCount' = frameCount + r.valid
                             /\ buffer_index' = 0
                             /\ header_found' = FALSE
                        ELSE /\ buffer_index' = idx
                             /\ UNCHANGED <<header_found, pm25_concentration,
                                            pm25_data_ready, frameCount>>
    /\ UNCHANGED <<script, arrived, pm25_pc>>
    /\ UNCHANGED <<batVars, lightVars>>
    /\ UNCHANGED mqttVars

\* Serial2.available() is 0: pm25_update returns, the task sleeps again
pm25_update_return ==
    /\ pm25_pc = "loop"
    /\ rxq = <<>>
    /\ pm25_pc' = "idle"
    /\ UNCHANGED <<script, arrived, rxq, rx_buffer, buffer_index, header_found,
                   pm25_concentration, pm25_data_ready, frameCount>>
    /\ UNCHANGED <<batVars, lightVars>>
    /\ UNCHANGED mqttVars

\* state of the decoder after pm25_init()
pm25_init ==
    /\ arrived = 0
    /\ rxq = <<>>
    /\ pm25_pc = "idle"
    /\ rx_buffer = [i \in 0..3 |-> 0]
    /\ buffer_index = 0
    /\ header_found = FALSE
    /\ pm25_concentration = 0
    /\ pm25_data_ready = FALSE
    /\ frameCount = 0

NoScript == [kind |-> "none", bytes |-> <<>>, off |-> 0]

DecoderIdle ==
    /\ script = NoScript
    /\ pm25_init

NextDecoder ==
    \/ SerialArrive
    \/ pm25_update_call
    \/ pm25_update_byte
    \/ pm25_update_return

(***************************************************************************)
(* Battery percentage                                                      *)
(***************************************************************************)
BATTERY_MIN_VOLTAGE == 3000
BATTERY_MAX_VOLTAGE == 4200

\* millivolt inputs: every value from below the lower clamp to above the upper
\* clamp, and the ends of the int range
VoltLow == 2990
VoltHigh == 4210
VoltageInputs == (VoltLow..VoltHigh) \cup {-2147483647 - 1, -1, 0, 6598, 2147483647}

\* C integer division truncates toward zero
CDiv(a, b) == IF a >= 0 THEN a \div b ELSE -((-a) \div b)

Clamp100(p) == IF p < 0 THEN 0 ELSE IF p > 100 THEN 100 ELSE p

\* mutant: the lower clamp tests the wrong direction
calculateBatteryPercentage_minflip(voltage_mV) ==
    IF voltage_mV >= BATTERY_MIN_VOLTAGE THEN 0
    ELSE IF voltage_mV >= BATTERY_MAX_VOLTAGE THEN 100
    ELSE 0

\* mutant: the 3300..3600 segment uses the slope of the next segment
calculateBatteryPercentage_slope(voltage_mV) ==
    IF voltage_mV <= BATTERY_MIN_VOLTAGE THEN 0
    ELSE IF voltage_mV >= BATTERY_MAX_VOLTAGE THEN 100
    ELSE Clamp100(
         IF voltage_mV >= 4000 THEN 85 + CDiv((voltage_mV - 4000) * 15, 200)
         ELSE IF voltage_mV >= 3800 THEN 60 + CDiv((voltage_mV - 3800) * 25, 200)
         ELSE IF voltage_mV >= 3700 THEN 40 + CDiv((voltage_mV - 3700) * 20, 100)
         ELSE IF voltage_mV >= 3600 THEN 20 + CDiv((voltage_mV - 3600) * 20, 100)
         ELSE IF voltage_mV >= 3300 THEN 5 + CDiv((voltage_mV - 3300) * 20, 300)
         ELSE CDiv((voltage_mV - 3000) * 5, 300))

\* mutant: the 3700..3800 segment divides by the width of the segment above it
calculateBatteryPercentage_width(voltage_mV) ==
    IF voltage_mV <= BATTERY_MIN_VOLTAGE THEN 0
    ELSE IF voltage_mV >= BATTERY_MAX_VOLTAGE THEN 100
    ELSE Clamp100(
         IF voltage_mV >= 4000 THEN 85 + CDiv((voltage_mV - 4000) * 15, 200)
         ELSE IF voltage_mV >= 3800 THEN 60 + CDiv((voltage_mV - 3800) * 25, 200)
         ELSE IF voltage_mV >= 3700 THEN 40 + CDiv((voltage_mV - 3700) * 20, 200)
         ELSE IF voltage_mV >= 3600 THEN 20 + CDiv((voltage_mV - 3600) * 20, 100)
         ELSE IF voltage_mV >= 3300 THEN 5 + CDiv((voltage_mV - 3300) * 15, 300)
         ELSE CDiv((voltage_mV - 3000) * 5, 300))

calculateBatteryPercentage(voltage_mV) ==
    IF voltage_mV <= BATTERY_MIN_VOLTAGE THEN 0
    ELSE IF voltage_mV >= BATTERY_MAX_VOLTAGE THEN 100
    ELSE Clamp100(
         IF voltage_mV >= 4000 THEN 85 + CDiv((voltage_mV - 4000) * 15, 200)
         ELSE IF voltage_mV >= 3800 THEN 60 + CDiv((voltage_mV - 3800) * 25, 200)
         ELSE IF voltage_mV >= 3700 THEN 40 + CDiv((voltage_mV - 3700) * 20, 100)
         ELSE IF voltage_mV >= 3600 THEN 20 + CDiv((voltage_mV - 3600) * 20, 100)
         ELSE IF voltage_mV >= 3300 THEN 5 + CDiv((voltage_mV - 3300) * 15, 300)
         ELSE CDiv((voltage_mV - 3000) * 5, 300))

\* getVoltage(): a new battery reading and its percentage (line 55); the
\* reading is drawn directly from the millivolt inputs under test
getVoltage ==
    /\ \E mv \in VoltageInputs :
         /\ battery_mV' = mv
         /\ battery_percentage' = calculateBatteryPercentage(mv)
    /\ UNCHANGED <<decVars, lightVars>>
    /\ UNCHANGED mqttVars

BatteryInit ==
    /\ battery_mV = 0
    /\ battery_percentage = 0

(***************************************************************************)
(* IEEE-754 single precision, as used by the curve arithmetic of           *)
(* updateBrightness.  A positive float is <<m, e>> with 2^23 <= m < 2^24   *)
(* and value m * 2^e; zero is <<0, 0>>.  Every operation rounds to nearest,*)
(* ties to even.  All intermediate integers stay below 2^31.               *)
(***************************************************************************)
Pow2(n) == 2 ^ n
TwoTo23 == Pow2(23)
TwoTo24 == Pow2(24)
TwoTo12 == Pow2(12)
FZero == <<0, 0>>
FOne == <<TwoTo23, -23>>

\* number of bits of n, 1 <= n < 2^31
BitLen(n) == CHOOSE k \in 1..31 : n \div Pow2(k - 1) = 1

\* q rounded up or not, given the discarded remainder r out of den
RoundEven(q, r, den) ==
    IF 2 * r > den \/ (2 * r = den /\ q % 2 = 1) THEN q + 1 ELSE q

\* the float with mantissa m <= 2^24 and exponent e
Renorm(m, e) == IF m = TwoTo24 THEN <<TwoTo23, e + 1>> ELSE <<m, e>>

\* n * 2^e rounded to a float, 0 <= n < 2^31
FRound(n, e) ==
    IF n = 0 THEN FZero
    ELSE LET k == BitLen(n) IN
         IF k <= 24 THEN <<n * Pow2(24 - k), e - (24 - k)>>
         ELSE LET sh == k - 24
                  den == Pow2(sh)
              IN  Renorm(RoundEven(n \div den, n % den, den), e + sh)

\* (float) n for an integer 0 <= n < 2^24: exact
FFromInt(n) == FRound(n, 0)

\* (float) a / (float) b for integers 1 <= a, b <= 64
FDivInt(a, b) ==
    LET t == CHOOSE i \in 0..30 : (a * Pow2(i)) \div b >= TwoTo23 /\ (a * Pow2(i)) \div b < TwoTo24
        num == a * Pow2(t)
    IN  Renorm(RoundEven(num \div b, num % b, b), -t)

\* x * y
FMul(x, y) ==
    IF x = FZero \/ y = FZero THEN FZero
    ELSE LET a1 == x[1] \div TwoTo12
             b1 == x[1] % TwoTo12
             a2 == y[1] \div TwoTo12
             b2 == y[1] % TwoTo12
             mid == a1 * b2 + a2 * b1
             low0 == (mid % TwoTo12) * TwoTo12 + b1 * b2
             \* the exact 48-bit product is hi * 2^24 + lo
             hi == a1 * a2 + mid \div TwoTo12 + low0 \div TwoTo24
             lo == low0 % TwoTo24
             e == x[2] + y[2]
         IN  IF hi >= TwoTo23
             THEN Renorm(RoundEven(hi, lo, TwoTo24), e + 24)
             ELSE Renorm(RoundEven(2 * hi + lo \div TwoTo23, lo % TwoTo23, TwoTo23), e + 23)

\* 1.0f - x for 0 <= x <= 1
FOneMinus(x) ==
    IF x = FZero THEN FOne
    ELSE IF x[2] >= -24 THEN FRound(Pow2(-x[2]) - x[1], x[2])
    ELSE \* x < 0.5: the result is in [0.5, 1], a multiple of 2^-24
         LET sh == -(x[2] + 24) IN
         IF sh >= 25 THEN FOne
         ELSE LET den == Pow2(sh)
                  xi == x[1] \div den
                  r == x[1] % den
              IN  IF r = 0 THEN Renorm(TwoTo24 - xi, -24)
                  ELSE Renorm(RoundEven(TwoTo24 - xi - 1, den - r, den), -24)

\* mutant: the conversion rounds to the nearest integer
FTrunc_round(x) ==
    IF x = FZero THEN 0
    ELSE IF x[2] >= 0 THEN x[1] * Pow2(x[2])
    ELSE IF -x[2] > 30 THEN 0
    ELSE (x[1] + Pow2(-x[2] - 1)) \div Pow2(-x[2])

\* the integer part of x >= 0
FTrunc(x) ==
    IF x = FZero THEN 0
    ELSE IF x[2] >= 0 THEN x[1] * Pow2(x[2])
    ELSE IF -x[2] > 30 THEN 0
    ELSE x[1] \div Pow2(-x[2])

(***************************************************************************)
(* 32-bit unsigned clock values, kept as <<high 16 bits, low 16 bits>>     *)
(***************************************************************************)
TwoTo16 == Pow2(16)

\* the uint32_t with value n, 0 <= n < 2^31
U32(n) == <<n \div TwoTo16, n % TwoTo16>>

\* a + n modulo 2^32, 0 <= n < 2^31
Add32(a, n) ==
    LET lo == a[2] + (n % TwoTo16)
    IN  <<(a[1] + n \div TwoTo16 + lo \div TwoTo16) % TwoTo16, lo % TwoTo16>>

\* a - b modulo 2^32
Sub32(a, b) ==
    LET lo == a[2] - b[2]
        borrow == IF lo < 0 THEN 1 ELSE 0
    IN  <<(a[1] - b[1] - borrow) % TwoTo16, lo % TwoTo16>>

Gt32(a, b) == a[1] > b[1] \/ (a[1] = b[1] /\ a[2] > b[2])

(***************************************************************************)
(* Motion latch                                                            *)
(***************************************************************************)
motionTimeout == 5000

\* mutant: the timeout test is >= instead of >
Expired_ge(cur, last) == ~Gt32(U32(motionTimeout), Sub32(cur, last))

\* mutant: the test compares currentTime with lastMotionTime + motionTimeout
Expired_sum(cur, last) == Gt32(cur, Add32(last, motionTimeout))

\* currentTime - lastMotionTime > motionTimeout, in uint32_t arithmetic
Expired(cur, last) == Gt32(Sub32(cur, last), U32(motionTimeout))

\* the interrupt handlers run to completion on the core of lightSetTask
\* mutant: the handler stores the time sampled by the poller, not millis()
motionISR_stale ==
    /\ isMove' = TRUE
    /\ lastMotionTime' = currentTime
    /\ UNCHANGED <<now, lux, curveVars, modeVars, pollVars>>
    /\ UNCHANGED <<decVars, batVars>>
    /\ UNCHANGED mqttVars

motionISR ==
    /\ isMove' = TRUE
    /\ lastMotionTime' = now
    /\ UNCHANGED <<now, lux, curveVars, modeVars, pollVars>>
    /\ UNCHANGED <<decVars, batVars>>
    /\ UNCHANGED mqttVars

key1ISR ==
    /\ isMove' = TRUE
    /\ lastMotionTime' = now
    /\ UNCHANGED <<now, lux, curveVars, modeVars, pollVars>>
    /\ UNCHANGED <<decVars, batVars>>
    /\ UNCHANGED mqttVars

\* mutant: the clear also stores millis(), as the trigger handlers do
key2ISR_stamped ==
    /\ isMove' = FALSE
    /\ lastMotionTime' = now
    /\ UNCHANGED <<now, lux, curveVars, modeVars, pollVars>>
    /\ UNCHANGED <<decVars, batVars>>
    /\ UNCHANGED mqttVars

key2ISR ==
    /\ isMove' = FALSE
    /\ UNCHANGED <<now, lux, lastMotionTime, curveVars, modeVars, pollVars>>
    /\ UNCHANGED <<decVars, batVars>>
    /\ UNCHANGED mqttVars

(***************************************************************************)
(* Brightness controller                                                   *)
(***************************************************************************)
LUX_THRESHOLD_HIGH == 500
LUX_THRESHOLD_MID == 300
LUX_THRESHOLD_LOW == 100
BRIGHTNESS_HIGH_LUX == 50
BRIGHTNESS_MID_LUX == 80
BRIGHTNESS_LOW_LUX == 110
BRIGHTNESS_MAX == 255
BRIGHTNESS_UP_STEPS == 40
BRIGHTNESS_DOWN_STEPS == 60

\* mutant: the thresholds are compared with > instead of >=
calculateBaseBrightness_gt(Lux) ==
    IF Lux > LUX_THRESHOLD_HIGH THEN 0
    ELSE IF Lux > LUX_THRESHOLD_MID THEN BRIGHTNESS_HIGH_LUX
    ELSE IF Lux > LUX_THRESHOLD_LOW THEN BRIGHTNESS_MID_LUX
    ELSE BRIGHTNESS_LOW_LUX

calculateBaseBrightness(Lux) ==
    IF Lux >= LUX_THRESHOLD_HIGH THEN 0
    ELSE IF Lux >= LUX_THRESHOLD_MID THEN BRIGHTNESS_HIGH_LUX
    ELSE IF Lux >= LUX_THRESHOLD_LOW THEN BRIGHTNESS_MID_LUX
    ELSE BRIGHTNESS_LOW_LUX

\* mutant: the two conditions of the target selection are joined by ||
SelectTarget_or(base, move) ==
    IF base > 0 \/ move THEN BRIGHTNESS_MAX ELSE base

\* mutant: motion raises the target also when the base brightness is 0
SelectTarget_nobase(base, move) ==
    IF move THEN BRIGHTNESS_MAX ELSE base

\* step 2 of updateBrightness
SelectTarget(base, move) ==
    IF base > 0 /\ move THEN BRIGHTNESS_MAX ELSE base

\* mutant: a new curve sets its own phase flag and leaves the other one
PhaseRestart_noclear(cur, tgt) ==
    IF tgt # cur /\ tgt > cur /\ (~isRising \/ isFalling)
    THEN [rising |-> TRUE, falling |-> isFalling, step |-> 0, start |-> cur]
    ELSE IF tgt # cur /\ tgt < cur /\ (~isFalling \/ isRising)
    THEN [rising |-> isRising, falling |-> TRUE, step |-> 0, start |-> cur]
    ELSE [rising |-> isRising, falling |-> isFalling, step |-> brightnessStep,
          start |-> startBrightness]

\* mutant: a new curve does not record the output as its start value
PhaseRestart_nostart(cur, tgt) ==
    IF tgt # cur /\ tgt > cur /\ (~isRising \/ isFalling)
    THEN [rising |-> TRUE, falling |-> FALSE, step |-> 0, start |-> startBrightness]
    ELSE IF tgt # cur /\ tgt < cur /\ (~isFalling \/ isRising)
    THEN [rising |-> FALSE, falling |-> TRUE, step |-> 0, start |-> startBrightness]
    ELSE [rising |-> isRising, falling |-> isFalling, step |-> brightnessStep,
          start |-> startBrightness]

\* mutant: a new curve starts only from the idle phase
PhaseRestart_idleonly(cur, tgt) ==
    IF tgt # cur /\ tgt > cur /\ ~isRising /\ ~isFalling
    THEN [rising |-> TRUE, falling |-> FALSE, step |-> 0, start |-> cur]
    ELSE IF tgt # cur /\ tgt < cur /\ ~isFalling /\ ~isRising
    THEN [rising |-> FALSE, falling |-> TRUE, step |-> 0, start |-> cur]
    ELSE [rising |-> isRising, falling |-> isFalling, step |-> brightnessStep,
          start |-> startBrightness]

\* mutant: a rising curve is also restarted whenever the target has changed
PhaseRestart_onchange(cur, tgt) ==
    IF tgt # cur /\ tgt > cur /\ (~isRising \/ isFalling \/ tgt # targetBrightness)
    THEN [rising |-> TRUE, falling |-> FALSE, step |-> 0, start |-> cur]
    ELSE IF tgt # cur /\ tgt < cur /\ (~isFalling \/ isRising)
    THEN [rising |-> FALSE, falling |-> TRUE, step |-> 0, start |-> cur]
    ELSE [rising |-> isRising, falling |-> isFalling, step |-> brightnessStep,
          start |-> startBrightness]

\* step 3 of updateBrightness: the phase flags, the step counter and the start
\* value after the decision whether a new curve starts
PhaseRestart(cur, tgt) ==
    IF tgt # cur /\ tgt > cur /\ (~isRising \/ isFalling)
    THEN [rising |-> TRUE, falling |-> FALSE, step |-> 0, start |-> cur]
    ELSE IF tgt # cur /\ tgt < cur /\ (~isFalling \/ isRising)
    THEN [rising |-> FALSE, falling |-> TRUE, step |-> 0, start |-> cur]
    ELSE [rising |-> isRising, falling |-> isFalling, step |-> brightnessStep,
          start |-> startBrightness]

\* brightnessStep++ on an int16_t
Inc16(n) == IF n = 32767 THEN -32768 ELSE n + 1

Abs(d) == IF d < 0 THEN -d ELSE d

\* mutant: the rising curve divides by the step count of the falling curve
RisingProgress_down(step) ==
    LET p == FDivInt(step, 60) IN FMul(p, p)

\* progress of the rising curve: (step/40)^2
RisingProgress(step) ==
    CHOOSE sq \in {FMul(p, p) : p \in {FDivInt(step, BRIGHTNESS_UP_STEPS)}} : TRUE

\* mutant: the falling curve is linear in the step count
FallingProgress_linear(step) == FDivInt(step, BRIGHTNESS_DOWN_STEPS)

\* progress of the falling curve: 1 - (1 - step/60)^2
FallingProgress(step) ==
    LET Q == {FOneMinus(p) : p \in {FDivInt(step, BRIGHTNESS_DOWN_STEPS)}}
        SQ == {FMul(q, q) : q \in Q}
    IN  CHOOSE r \in {FOneMinus(sq) : sq \in SQ} : TRUE

\* the values (uint8_t)((float) d * progress) can take: the truncated product
\* when it is in 0..255, any value when the conversion is undefined
ScaledDelta(d, progress) ==
    LET M == {FMul(f, p) : f \in {FFromInt(Abs(d))}, p \in {progress}}
        T == {FTrunc(m) : m \in M}
    IN  UNION {IF t = 0 \/ (d >= 0 /\ t <= 255) THEN {t} ELSE 0..255 : t \in T}

\* mutant: a tick that finds the output at the target leaves the phase flags
CurveStep_noidle(cur, tgt, st) ==
    IF st.rising /\ cur < tgt
    THEN LET n == Inc16(st.step) IN
         IF n <= BRIGHTNESS_UP_STEPS
         THEN {[st EXCEPT !.step = n] @@ [cur |-> (st.start + x) % 256] :
                   x \in ScaledDelta(tgt - st.start, RisingProgress(n))}
         ELSE {[st EXCEPT !.step = n, !.rising = FALSE] @@ [cur |-> tgt]}
    ELSE IF st.falling /\ cur > tgt
    THEN LET n == Inc16(st.step) IN
         IF n <= BRIGHTNESS_DOWN_STEPS
         THEN {[st EXCEPT !.step = n] @@ [cur |-> (st.start - x) % 256] :
                   x \in ScaledDelta(st.start - tgt, FallingProgress(n))}
         ELSE {[st EXCEPT !.step = n, !.falling = FALSE] @@ [cur |-> tgt]}
    ELSE {st @@ [cur |-> cur]}

\* mutant: when the steps are used up the output is set to the target and the
\* phase goes on
CurveStep_stay(cur, tgt, st) ==
    IF st.rising /\ cur < tgt
    THEN LET n == Inc16(st.step) IN
         IF n <= BRIGHTNESS_UP_STEPS
         THEN {[st EXCEPT !.step = n] @@ [cur |-> (st.start + x) % 256] :
                   x \in ScaledDelta(tgt - st.start, RisingProgress(n))}
         ELSE {[st EXCEPT !.step = n] @@ [cur |-> tgt]}
    ELSE IF st.falling /\ cur > tgt
    THEN LET n == Inc16(st.step) IN
         IF n <= BRIGHTNESS_DOWN_STEPS
         THEN {[st EXCEPT !.step = n] @@ [cur |-> (st.start - x) % 256] :
                   x \in ScaledDelta(st.start - tgt, FallingProgress(n))}
         ELSE {[st EXCEPT !.step = n] @@ [cur |-> tgt]}
    ELSE {[st EXCEPT !.rising = FALSE, !.falling = FALSE] @@ [cur |-> cur]}

\* mutant: when the steps are used up the phase ends without the output being
\* set to the target
CurveStep_nosnap(cur, tgt, st) ==
    IF st.rising /\ cur < tgt
    THEN LET n == Inc16(st.step) IN
         IF n <= BRIGHTNESS_UP_STEPS
         THEN {[st EXCEPT !.step = n] @@ [cur |-> (st.start + x) % 256] :
                   x \in ScaledDelta(tgt - st.start, RisingProgress(n))}
         ELSE {[st EXCEPT !.step = n, !.rising = FALSE] @@ [cur |-> cur]}
    ELSE IF st.falling /\ cur > tgt
    THEN LET n == Inc16(st.step) IN
         IF n <= BRIGHTNESS_DOWN_STEPS
         THEN {[st EXCEPT !.step = n] @@ [cur |-> (st.start - x) % 256] :
                   x \in ScaledDelta(st.start - tgt, FallingProgress(n))}
         ELSE {[st EXCEPT !.step = n, !.falling = FALSE] @@ [cur |-> cur]}
    ELSE {[st EXCEPT !.rising = FALSE, !.falling = FALSE] @@ [cur |-> cur]}

\* step 4 of updateBrightness, from the state st left by step 3: the possible
\* new values of the output, the step counter and the phase flags
CurveStep(cur, tgt, st) ==
    IF st.rising /\ cur < tgt
    THEN LET n == Inc16(st.step) IN
         IF n <= BRIGHTNESS_UP_STEPS
         THEN {[st EXCEPT !.step = n] @@ [cur |-> (st.start + x) % 256] :
                   x \in ScaledDelta(tgt - st.start, RisingProgress(n))}
         ELSE {[st EXCEPT !.step = n, !.rising = FALSE] @@ [cur |-> tgt]}
    ELSE IF st.falling /\ cur > tgt
    THEN LET n == Inc16(st.step) IN
         IF n <= BRIGHTNESS_DOWN_STEPS
         THEN {[st EXCEPT !.step = n] @@ [cur |-> (st.start - x) % 256] :
                   x \in ScaledDelta(st.start - tgt, FallingProgress(n))}
         ELSE {[st EXCEPT !.step = n, !.falling = FALSE] @@ [cur |-> tgt]}
    ELSE {[st EXCEPT !.rising = FALSE, !.falling = FALSE] @@ [cur |-> cur]}

\* lines 178-239 of updateBrightness with isMove read as move, then the write
\* of the result to the LED strip by lightSetTask
UpdateCurve(base, move) ==
    LET tgt == SelectTarget(base, move)
        st == PhaseRestart(currentBrightness, tgt)
    IN  \E r \in CurveStep(currentBrightness, tgt, st) :
            /\ targetBrightness' = tgt
            /\ currentBrightness' = r.cur
            /\ brightnessStep' = r.step
            /\ isRising' = r.rising
            /\ isFalling' = r.falling
            /\ startBrightness' = r.start
            /\ brightnessAuto' = r.cur
            /\ leds' = r.cur

\* mutant: the expiry check also runs in manual mode
lightSetTask_eager ==
    /\ ls_pc = "delay"
    /\ IF isAuto
       THEN LET base == calculateBaseBrightness(lux)
                move == IF isMove /\ Expired(now, lastMotionTime) THEN FALSE ELSE isMove
            IN  /\ baseBrightness' = base
                /\ currentTime' = now
                /\ isMove' = move
                /\ UpdateCurve(base, move)
       ELSE /\ leds' = brightness
            /\ isMove' = (IF isMove /\ Expired(now, lastMotionTime) THEN FALSE ELSE isMove)
            /\ UNCHANGED <<currentTime, currentBrightness, targetBrightness,
                           baseBrightness, brightnessStep, isRising, isFalling,
                           startBrightness, brightnessAuto>>
    /\ UNCHANGED <<now, lux, lastMotionTime, modeVars, ls_pc, rdMove, rdLast>>
    /\ UNCHANGED <<decVars, batVars>>
    /\ UNCHANGED mqttVars

\* mutant: the target is selected before the expiry check
lightSetTask_stale ==
    /\ ls_pc = "delay"
    /\ IF isAuto
       THEN LET base == calculateBaseBrightness(lux)
                move == IF isMove /\ Expired(now, lastMotionTime) THEN FALSE ELSE isMove
            IN  /\ baseBrightness' = base
                /\ currentTime' = now
                /\ isMove' = move
                /\ UpdateCurve(base, isMove)
       ELSE /\ leds' = brightness
            /\ UNCHANGED <<isMove, currentTime, currentBrightness, targetBrightness,
                           baseBrightness, brightnessStep, isRising, isFalling,
                           startBrightness, brightnessAuto>>
    /\ UNCHANGED <<now, lux, lastMotionTime, modeVars, ls_pc, rdMove, rdLast>>
    /\ UNCHANGED <<decVars, batVars>>
    /\ UNCHANGED mqttVars

\* mutant: calculatePerceivedBrightness is called before the mode is tested
lightSetTask_always ==
    /\ ls_pc = "delay"
    /\ LET base == calculateBaseBrightness(lux)
           move == IF isMove /\ Expired(now, lastMotionTime) THEN FALSE ELSE isMove
           tgt == SelectTarget(base, move)
           st == PhaseRestart(currentBrightness, tgt)
       IN  \E r \in CurveStep(currentBrightness, tgt, st) :
               /\ baseBrightness' = base
               /\ currentTime' = now
               /\ isMove' = move
               /\ targetBrightness' = tgt
               /\ currentBrightness' = r.cur
               /\ brightnessStep' = r.step
               /\ isRising' = r.rising
               /\ isFalling' = r.falling
               /\ startBrightness' = r.start
               /\ brightnessAuto' = r.cur
               /\ leds' = IF isAuto THEN r.cur ELSE brightness
    /\ UNCHANGED <<now, lux, lastMotionTime, modeVars, ls_pc, rdMove, rdLast>>
    /\ UNCHANGED <<decVars, batVars>>
    /\ UNCHANGED mqttVars

\* one cycle of lightSetTask, run without an interrupt in between
lightSetTask ==
    /\ ls_pc = "delay"
    /\ IF isAuto
       THEN LET base == calculateBaseBrightness(lux)
                move == IF isMove /\ Expired(now, lastMotionTime) THEN FALSE ELSE isMove
            IN  /\ baseBrightness' = base
                /\ currentTime' = now
                /\ isMove' = move
                /\ UpdateCurve(base, move)
       ELSE /\ leds' = brightness
            /\ UNCHANGED <<isMove, currentTime, currentBrightness, targetBrightness,
                           baseBrightness, brightnessStep, isRising, isFalling,
                           startBrightness, brightnessAuto>>
    /\ UNCHANGED <<now, lux, lastMotionTime, modeVars, ls_pc, rdMove, rdLast>>
    /\ UNCHANGED <<decVars, batVars>>
    /\ UNCHANGED mqttVars

\* ---- the same cycle in the steps an interrupt can fall between ----

\* lightSetTask wakes up; in auto mode calculatePerceivedBrightness sets the
\* base brightness and updateBrightness samples millis()
ls_enter ==
    /\ ls_pc = "delay"
    /\ IF isAuto
       THEN /\ baseBrightness' = calculateBaseBrightness(lux)
            /\ currentTime' = now
            /\ ls_pc' = "check"
            /\ UNCHANGED leds
       ELSE /\ leds' = brightness
            /\ UNCHANGED <<baseBrightness, currentTime, ls_pc>>
    /\ UNCHANGED <<now, lux, motionVars, modeVars, rdMove, rdLast, currentBrightness,
                   targetBrightness, brightnessStep, isRising, isFalling,
                   startBrightness, brightnessAuto>>
    /\ UNCHANGED <<decVars, batVars>>
    /\ UNCHANGED mqttVars

\* the expiry check loads the volatile flag
ls_loadMove ==
    /\ ls_pc = "check"
    /\ rdMove = <<>>
    /\ rdMove' = <<isMove>>
    /\ UNCHANGED <<now, lux, motionVars, curveVars, modeVars, ls_pc, currentTime, rdLast>>
    /\ UNCHANGED <<decVars, batVars>>
    /\ UNCHANGED mqttVars

\* the expiry check loads lastMotionTime: after the flag was read true, or
\* before the flag is read (the timestamp is not volatile, its load may be
\* moved ahead of the volatile read)
ls_loadLast ==
    /\ ls_pc = "check"
    /\ rdLast = <<>>
    /\ rdMove # <<FALSE>>
    /\ rdLast' = lastMotionTime
    /\ UNCHANGED <<now, lux, motionVars, curveVars, modeVars, ls_pc, currentTime, rdMove>>
    /\ UNCHANGED <<decVars, batVars>>
    /\ UNCHANGED mqttVars

\* the expiry check decides on the loaded values and writes isMove = false
ls_expire ==
    /\ ls_pc = "check"
    /\ rdMove # <<>>
    /\ rdMove = <<FALSE>> \/ rdLast # <<>>
    /\ isMove' = IF rdMove = <<TRUE>> /\ Expired(currentTime, rdLast) THEN FALSE ELSE isMove
    /\ ls_pc' = "target"
    /\ UNCHANGED <<now, lux, lastMotionTime, curveVars, modeVars, currentTime, rdMove, rdLast>>
    /\ UNCHANGED <<decVars, batVars>>
    /\ UNCHANGED mqttVars

\* the rest of updateBrightness, reading isMove again, and the LED write
ls_finish ==
    /\ ls_pc = "target"
    /\ UpdateCurve(baseBrightness, isMove)
    /\ ls_pc' = "delay"
    /\ rdMove' = <<>>
    /\ rdLast' = <<>>
    /\ UNCHANGED <<now, lux, motionVars, baseBrightness, modeVars, currentTime>>
    /\ UNCHANGED <<decVars, batVars>>
    /\ UNCHANGED mqttVars

\* mutant: the percentage is stored as it comes
MapPercent_raw(x) == x % 256

\* Arduino map(x, 0, 100, 0, 255), stored in a uint8_t
MapPercent(x) == ((x * 255) \div 100) % 256

\* the "brightness" values of the set_brightness commands tried
PercentSamples == {-1, 0, 1, 25, 50, 99, 100, 101}

\* the command set_brightness with the percentage newBrightness
set_brightness(newBrightness) ==
    IF newBrightness >= 0 /\ newBrightness <= 100
    THEN brightness' = MapPercent(newBrightness) /\ isAuto' = FALSE
    ELSE UNCHANGED <<brightness, isAuto>>

\* the command set_auto_mode with the flag newAuto
set_auto_mode(newAuto) ==
    isAuto' = newAuto /\ UNCHANGED brightness

\* mqtt_callback on the control topic: set_brightness with a percentage,
\* set_auto_mode with a flag; any other message changes nothing
mqtt_callback ==
    /\ \/ \E newBrightness \in PercentSamples : set_brightness(newBrightness)
       \/ \E newAuto \in BOOLEAN : set_auto_mode(newAuto)
    /\ UNCHANGED <<now, lux, motionVars, curveVars, pollVars>>
    /\ UNCHANGED <<decVars, batVars>>
    /\ UNCHANGED mqttVars

\* the light readings tried: an error value and one value in each bracket
LuxSamples == {-1, 50, 100, 300, 500}

\* getI2CTask stores a new reading of the light sensor (line 164); the call of
\* getVoltage() that follows it in the task's loop is the action getVoltage
readLightLevel ==
    /\ \E reading \in LuxSamples : lux' = reading
    /\ UNCHANGED <<now, motionVars, curveVars, modeVars, pollVars>>
    /\ UNCHANGED <<decVars, batVars>>
    /\ UNCHANGED mqttVars

\* time passes
MaxNow == 5001
ClockSteps == {motionTimeout - 1, motionTimeout, motionTimeout + 1}

\* the clock values followed: the first MaxNow ms after start, and the last
\* MaxNow ms before the 32-bit counter wraps to 0
InWindow(t) ==
    \/ t[1] = 0 /\ t[2] <= MaxNow
    \/ t[1] = TwoTo16 - 1 /\ t[2] >= TwoTo16 - MaxNow

AdvanceClock ==
    /\ \E d \in ClockSteps :
         /\ InWindow(Add32(now, d))
         /\ now' = Add32(now, d)
    /\ UNCHANGED <<lux, motionVars, curveVars, modeVars, pollVars>>
    /\ UNCHANGED <<decVars, batVars>>
    /\ UNCHANGED mqttVars

\* state after brightnessInit() and the initialisers of taskCreate.cpp
brightnessInit_at(reading) ==
    /\ now = U32(0)
    /\ lux = reading
    /\ isMove = FALSE
    /\ lastMotionTime = U32(0)
    /\ currentBrightness = 0
    /\ targetBrightness = 0
    /\ baseBrightness = 0
    /\ brightnessStep = 0
    /\ isRising = FALSE
    /\ isFalling = FALSE
    /\ startBrightness = 0
    /\ isAuto = TRUE
    /\ brightness = 0
    /\ brightnessAuto = 0
    /\ leds = 0
    /\ ls_pc = "delay"
    /\ currentTime = U32(0)
    /\ rdMove = <<>>
    /\ rdLast = <<>>

brightnessInit == brightnessInit_at(500)

(***************************************************************************)
(* MQTT connection retry (lib/mqttConfig/mqttConfig.cpp)                   *)
(*                                                                         *)
(* mqttDataTask and mqttHeartbeatTask both call mqttConnect at the top of  *)
(* their loop.  Both are created with priority 1 on core 0, so the         *)
(* scheduler may switch from one to the other between any two statements,  *)
(* and it does switch while one of them waits inside mqttClient.connect.   *)
(* A call is therefore a sequence of steps, one per access to the shared   *)
(* variables.  Times are ms since the start; the runs followed end long    *)
(* before the 32-bit counter wraps.                                        *)
(***************************************************************************)
MqttTasks == {"mqttDataTask", "mqttHeartbeatTask"}

MQTT_MAX_RETRY_COUNT == 3
ConnectInterval == 5000
RetryPause == 60000

MqttMaxNow == 70000
MqttSteps == {5000, 50000}

\* unsigned long a - b < k, for a and b below 2^31 and k below 2^31: when
\* a < b the difference wraps to more than 2^31
ElapsedBelow(a, b, k) == a >= b /\ a - b < k
\* unsigned long a - b > k, same
ElapsedAbove(a, b, k) == a < b \/ a - b > k

mqttInit ==
    /\ ms = 0
    /\ wifiConnected = FALSE
    /\ mqttConnected = FALSE
    /\ retryCount = 0
    /\ lastConnectAttempt = 0
    /\ resetTime = 0
    /\ mq_pc = [t \in MqttTasks |-> "idle"]
    /\ mq_now = [t \in MqttTasks |-> 0]
    /\ lastAttempt = -1
    /\ limitReached = FALSE

\* the call returns: the task is outside mqttConnect and its local now is gone
Return(t) ==
    /\ mq_pc' = [mq_pc EXCEPT ![t] = "idle"]
    /\ mq_now' = [mq_now EXCEPT ![t] = 0]

\* millis() moves on
MqttClock ==
    /\ \E d \in MqttSteps :
         /\ ms + d <= MqttMaxNow
         /\ ms' = ms + d
    /\ UNCHANGED <<wifiConnected, mqttConnected, retryCount, lastConnectAttempt, resetTime,
                   mq_pc, mq_now, lastAttempt, limitReached>>
    /\ UNCHANGED <<decVars, batVars, lightVars>>

\* the station gains or loses its access point
WiFiEvent ==
    /\ wifiConnected' = ~wifiConnected
    /\ UNCHANGED <<ms, mqttConnected, retryCount, lastConnectAttempt, resetTime,
                   mq_pc, mq_now, lastAttempt, limitReached>>
    /\ UNCHANGED <<decVars, batVars, lightVars>>

\* the broker or the network drops an established session
ConnectionLost ==
    /\ mqttConnected
    /\ mqttConnected' = FALSE
    /\ UNCHANGED <<ms, wifiConnected, retryCount, lastConnectAttempt, resetTime,
                   mq_pc, mq_now, lastAttempt, limitReached>>
    /\ UNCHANGED <<decVars, batVars, lightVars>>

\* lines 107-116: the two early returns, then now = millis()
mqttConnect_enter(t) ==
    /\ mq_pc[t] = "idle"
    /\ IF ~wifiConnected \/ mqttConnected
       THEN UNCHANGED <<mq_pc, mq_now>>
       ELSE /\ mq_pc' = [mq_pc EXCEPT ![t] = "interval"]
            /\ mq_now' = [mq_now EXCEPT ![t] = ms]
    /\ UNCHANGED <<ms, wifiConnected, mqttConnected, retryCount, lastConnectAttempt,
                   resetTime, lastAttempt, limitReached>>
    /\ UNCHANGED <<decVars, batVars, lightVars>>

\* lines 117-119: the interval test against lastConnectAttempt
mqttConnect_interval(t) ==
    /\ mq_pc[t] = "interval"
    /\ IF ElapsedBelow(mq_now[t], lastConnectAttempt, ConnectInterval)
       THEN Return(t)
       ELSE mq_pc' = [mq_pc EXCEPT ![t] = "limit"] /\ UNCHANGED mq_now
    /\ UNCHANGED <<ms, wifiConnected, mqttConnected, retryCount, lastConnectAttempt,
                   resetTime, lastAttempt, limitReached>>
    /\ UNCHANGED <<decVars, batVars, lightVars>>

\* lines 121-129: the retry limit, and the reset of the counter
mqttConnect_limit(t) ==
    /\ mq_pc[t] = "limit"
    /\ IF retryCount >= MQTT_MAX_RETRY_COUNT
       THEN /\ IF ElapsedAbove(mq_now[t], resetTime, RetryPause)
               THEN retryCount' = 0 /\ resetTime' = mq_now[t]
               ELSE UNCHANGED <<retryCount, resetTime>>
            /\ Return(t)
       ELSE /\ mq_pc' = [mq_pc EXCEPT ![t] = "stamp"]
            /\ UNCHANGED <<retryCount, resetTime, mq_now>>
    /\ UNCHANGED <<ms, wifiConnected, mqttConnected, lastConnectAttempt,
                   lastAttempt, limitReached>>
    /\ UNCHANGED <<decVars, batVars, lightVars>>

\* line 131: lastConnectAttempt = now
mqttConnect_stamp(t) ==
    /\ mq_pc[t] = "stamp"
    /\ lastConnectAttempt' = mq_now[t]
    /\ mq_pc' = [mq_pc EXCEPT ![t] = "count"]
    /\ UNCHANGED <<ms, wifiConnected, mqttConnected, retryCount, resetTime,
                   mq_now, lastAttempt, limitReached>>
    /\ UNCHANGED <<decVars, batVars, lightVars>>

\* lines 132-142: retryCount++ on a uint8_t, then the call of
\* mqttClient.connect; the attempt is logged with the time it was decided at
mqttConnect_start(t) ==
    /\ mq_pc[t] = "count"
    /\ retryCount' = (retryCount + 1) % 256
    /\ mq_pc' = [mq_pc EXCEPT ![t] = "connect"]
    /\ lastAttempt' = mq_now[t]
    /\ limitReached' = FALSE
    /\ UNCHANGED <<ms, wifiConnected, mqttConnected, lastConnectAttempt, resetTime, mq_now>>
    /\ UNCHANGED <<decVars, batVars, lightVars>>

ConnectOutcomes == {"accepted", "refused", "bad credentials"}

\* lines 142-158: mqttClient.connect returns
mqttConnect_result(t) ==
    /\ mq_pc[t] = "connect"
    /\ \E outcome \in ConnectOutcomes :
         /\ mqttConnected' = (outcome = "accepted")
         /\ retryCount' = CASE outcome = "accepted" -> 0
                            [] outcome = "bad credentials" -> MQTT_MAX_RETRY_COUNT
                            [] OTHER -> retryCount
         /\ limitReached' = IF outcome = "accepted" THEN FALSE
                             ELSE limitReached \/ retryCount' >= MQTT_MAX_RETRY_COUNT
    /\ Return(t)
    /\ UNCHANGED <<ms, wifiConnected, lastConnectAttempt, resetTime, lastAttempt>>
    /\ UNCHANGED <<decVars, batVars, lightVars>>

\* a call of mqttConnect that starts while no other call is under way
mqttConnect_alone(t) ==
    /\ \A u \in MqttTasks : mq_pc[u] = "idle"
    /\ mqttConnect_enter(t)

(***************************************************************************)
(* Specifications                                                          *)
(***************************************************************************)

\* ---- one well-formed frame, every 7-bit payload ----
FrameScripts ==
    {[kind |-> "good", bytes |-> GoodFrame(h, l), off |-> 0] : h \in Data7, l \in Data7}

InitFrame ==
    /\ script \in FrameScripts
    /\ pm25_init
    /\ BatteryInit
    /\ mqttInit
    /\ brightnessInit

SpecFrame == InitFrame /\ [][NextDecoder]_vars

\* ---- a corrupted frame followed by a well-formed one ----
DataSamples == {0, 1, 44, 127}
NextSamples == {<<1, 44>>, <<37, 0>>}
PreSamples == {<<>>, <<0>>, GoodFrame(127, 126)}

\* wrong 4th bytes: noise, a header byte, the right sum with bit 7 set, the
\* right sum off by one
BadSums(h, l) ==
    LET sum == (PM25_HEADER + h + l) % 128
    IN  {0, 255, PM25_HEADER, sum + 128, (sum + 1) % 128} \ {sum}

CorruptScripts ==
    {[kind |-> "corrupt",
      bytes |-> p \o BadFrame(hl[1], hl[2], hl[3]) \o GoodFrame(n[1], n[2]),
      off |-> Len(p)] :
        p \in PreSamples,
        hl \in {<<h, l, c>> : h \in DataSamples, l \in DataSamples, c \in Byte},
        n \in NextSamples}

DecoderScripts ==
    {sc \in CorruptScripts : sc.bytes[sc.off + 4] \in BadSums(sc.bytes[sc.off + 2], sc.bytes[sc.off + 3])}

InitDecoder ==
    /\ script \in DecoderScripts
    /\ pm25_init
    /\ BatteryInit
    /\ mqttInit
    /\ brightnessInit

SpecDecoder == InitDecoder /\ [][NextDecoder]_vars

\* ---- arbitrary bytes: frames with 8-bit data, noise, loss of alignment ----
ByteSamples == {0, 44, 127, 128, 255}
RawScripts ==
    {[kind |-> "raw", bytes |-> GoodFrame(h, l), off |-> 0] : h \in Byte, l \in ByteSamples}

\* two zero bytes, then the header, 0x01, 0x2C and any 4th byte
NoiseScripts ==
    {[kind |-> "noise", bytes |-> <<0, 0>> \o BadFrame(1, 44, c), off |-> 2] : c \in Byte}

\* what was fed before: nothing, a rejected frame, or a frame cut off after
\* 1, 2 or 3 bytes
CutSamples == {0, 44, PM25_HEADER, 255}
Prefixes ==
    {<<>>, BadFrame(1, 44, 0), <<PM25_HEADER>>}
        \cup {<<PM25_HEADER, x>> : x \in CutSamples}
        \cup {<<PM25_HEADER, x, y>> : x \in CutSamples, y \in CutSamples}

\* the data bytes of three frames sent back to back
FrameTriples ==
    {<<<<74, 3>>, <<37, 0>>, <<0, 5>>>>, <<<<1, 44>>, <<127, 127>>, <<37, 0>>>>,
     <<<<1, 75>>, <<37, 0>>, <<0, 5>>>>}

ResyncScripts ==
    {[kind |-> "resync",
      bytes |-> p \o GoodFrame(t[1][1], t[1][2]) \o GoodFrame(t[2][1], t[2][2])
                  \o GoodFrame(t[3][1], t[3][2]),
      off |-> Len(p)] : p \in Prefixes, t \in FrameTriples}

InitStream ==
    /\ script \in RawScripts \cup NoiseScripts \cup ResyncScripts
    /\ pm25_init
    /\ BatteryInit
    /\ mqttInit
    /\ brightnessInit

SpecStream == InitStream /\ [][NextDecoder]_vars

\* ---- the battery estimator on every input ----
InitBattery ==
    /\ DecoderIdle
    /\ BatteryInit
    /\ mqttInit
    /\ brightnessInit

SpecBattery == InitBattery /\ [][getVoltage]_vars

\* ---- the motion latch against the clock, the light staying at 500 lux ----
NextLatch ==
    \/ motionISR
    \/ key1ISR
    \/ key2ISR
    \/ AdvanceClock
    \/ lightSetTask

\* the light reading of the run: dark (base 110) or bright (base 0)
LatchLux == {50, 500}

InitLatch ==
    /\ DecoderIdle
    /\ BatteryInit
    /\ mqttInit
    /\ \E reading \in LatchLux : brightnessInit_at(reading)

SpecLatch == InitLatch /\ [][NextLatch]_vars

\* ---- the same with the cycle of lightSetTask open to interrupts ----
NextRace ==
    \/ motionISR
    \/ key1ISR
    \/ key2ISR
    \/ AdvanceClock
    \/ ls_enter
    \/ ls_loadMove
    \/ ls_loadLast
    \/ ls_expire
    \/ ls_finish

SpecRace == InitBattery /\ [][NextRace]_vars

\* ---- a dark room and no motion: ticks and the clock only ----
InitRise ==
    /\ DecoderIdle
    /\ BatteryInit
    /\ mqttInit
    /\ brightnessInit_at(50)

SpecRise == InitRise /\ [][lightSetTask \/ AdvanceClock]_vars

\* ---- calculateBaseBrightness on every reading of a range ----
LuxLow == 3
LuxHigh == 600
InitBase ==
    /\ DecoderIdle
    /\ BatteryInit
    /\ mqttInit
    /\ \E reading \in (0 - LuxLow)..LuxHigh : brightnessInit_at(reading)

SpecBase == InitBase /\ [][ls_enter]_vars

\* ---- a dark room with motion, and the mode switched over MQTT ----
NextManual ==
    \/ motionISR
    \/ mqtt_callback
    \/ lightSetTask

SpecManual == InitRise /\ [][NextManual]_vars

\* ---- a dark room: triggers and clears between the ticks, no timeout ----
NextTurn ==
    \/ motionISR
    \/ key2ISR
    \/ lightSetTask

SpecTurn == InitRise /\ [][NextTurn]_vars

\* ---- the motion flag against the clock in auto and manual mode ----
NextLazy ==
    \/ motionISR
    \/ key2ISR
    \/ mqtt_callback
    \/ AdvanceClock
    \/ lightSetTask

SpecLazy == InitBattery /\ [][NextLazy]_vars

\* ---- the motion latch across the wrap of millis() ----
\* how long before the wrap the run starts
WrapLeads == {1, 1000, 2500, 4000, 5001}

\* the device after 49.7 days in daylight without a trigger
InitWrap ==
    /\ DecoderIdle
    /\ BatteryInit
    /\ mqttInit
    /\ \E k \in WrapLeads : now = <<TwoTo16 - 1, TwoTo16 - k>>
    /\ currentTime = now
    /\ lux = 500
    /\ isMove = FALSE
    /\ lastMotionTime = U32(0)
    /\ currentBrightness = 0
    /\ targetBrightness = 0
    /\ baseBrightness = 0
    /\ brightnessStep = 0
    /\ isRising = FALSE
    /\ isFalling = FALSE
    /\ startBrightness = 0
    /\ isAuto = TRUE
    /\ brightness = 0
    /\ brightnessAuto = 0
    /\ leds = 0
    /\ ls_pc = "delay"
    /\ rdMove = <<>>
    /\ rdLast = <<>>

NextWrap ==
    \/ motionISR
    \/ AdvanceClock
    \/ lightSetTask

SpecWrap == InitWrap /\ [][NextWrap]_vars

\* ---- a dark room, 5001 ms before the wrap of millis(): early triggers,
\* ---- the clock and periodic ticks ----
SettleStart == <<TwoTo16 - 1, TwoTo16 - (motionTimeout + 1)>>

\* the device after a long time in the dark without a trigger: the output
\* settled at the base brightness by the first rise
InitSettle ==
    /\ DecoderIdle
    /\ BatteryInit
    /\ mqttInit
    /\ now = SettleStart
    /\ currentTime = now
    /\ lux = 50
    /\ isMove = FALSE
    /\ lastMotionTime = U32(0)
    /\ currentBrightness = BRIGHTNESS_LOW_LUX
    /\ targetBrightness = BRIGHTNESS_LOW_LUX
    /\ baseBrightness = BRIGHTNESS_LOW_LUX
    /\ brightnessStep = BRIGHTNESS_UP_STEPS
    /\ isRising = FALSE
    /\ isFalling = FALSE
    /\ startBrightness = 0
    /\ isAuto = TRUE
    /\ brightness = 0
    /\ brightnessAuto = BRIGHTNESS_LOW_LUX
    /\ leds = BRIGHTNESS_LOW_LUX
    /\ ls_pc = "delay"
    /\ rdMove = <<>>
    /\ rdLast = <<>>

\* a trigger of the first instant: it is followed by enough of the clock's
\* range for its timeout to pass
EarlyTrigger == now = SettleStart /\ motionISR

NextSettle ==
    \/ EarlyTrigger
    \/ AdvanceClock
    \/ lightSetTask

\* lightSetTask runs every 50 ms and millis() keeps counting
SpecSettle ==
    InitSettle /\ [][NextSettle]_vars /\ WF_vars(lightSetTask) /\ WF_vars(AdvanceClock)

\* ---- the brightness controller under any light and motion input ----
NextCurve ==
    \/ motionISR
    \/ key1ISR
    \/ key2ISR
    \/ readLightLevel
    \/ lightSetTask

SpecCurve == InitBattery /\ [][NextCurve]_vars

\* ---- the two MQTT tasks, switched at any statement of mqttConnect ----
RaceHorizon == 20000

\* the clock, followed over the first attempts only
EarlyClock ==
    /\ ms < RaceHorizon
    /\ MqttClock

NextMqtt ==
    \/ EarlyClock
    \/ WiFiEvent
    \/ ConnectionLost
    \/ \E t \in MqttTasks : mqttConnect_enter(t)
    \/ \E t \in MqttTasks : mqttConnect_interval(t)
    \/ \E t \in MqttTasks : mqttConnect_limit(t)
    \/ \E t \in MqttTasks : mqttConnect_stamp(t)
    \/ \E t \in MqttTasks : mqttConnect_start(t)
    \/ \E t \in MqttTasks : mqttConnect_result(t)

InitMqtt ==
    /\ DecoderIdle
    /\ BatteryInit
    /\ mqttInit
    /\ brightnessInit

SpecMqtt == InitMqtt /\ [][NextMqtt]_vars

\* ---- the same tasks when no call of mqttConnect overlaps another ----
\* the statements between millis() and mqttClient.connect take far less than
\* one step of the clock: it moves while the tasks sleep or wait in connect
QuietClock ==
    /\ \A t \in MqttTasks : mq_pc[t] \in {"idle", "connect"}
    /\ MqttClock

NextRetry ==
    \/ QuietClock
    \/ WiFiEvent
    \/ ConnectionLost
    \/ \E t \in MqttTasks : mqttConnect_alone(t)
    \/ \E t \in MqttTasks : mqttConnect_interval(t)
    \/ \E t \in MqttTasks : mqttConnect_limit(t)
    \/ \E t \in MqttTasks : mqttConnect_stamp(t)
    \/ \E t \in MqttTasks : mqttConnect_start(t)
    \/ \E t \in MqttTasks : mqttConnect_result(t)

SpecRetry == InitMqtt /\ [][NextRetry]_vars

(***************************************************************************)
(* Claims                                                                  *)
(***************************************************************************)

\* C1: from SearchingHeader, the four bytes 0xA5, dataH, dataL,
\* (0xA5+dataH+dataL)&0x7F (7-bit dataH, dataL) produce exactly one frame:
\* no frame before the 4th byte is consumed, and once it is consumed
\* pm25_data_ready is true, pm25_concentration is dataH*128+dataL and one
\* frame has been counted.
C1_GoodFrameDecoded ==
    script.kind = "good" =>
        LET dataH == script.bytes[2]
            dataL == script.bytes[3]
        IN  /\ fed < 4 => (frameCount = 0 /\ ~pm25_data_ready /\ pm25_concentration = 0)
            /\ fed = 4 => /\ frameCount = 1
                          /\ pm25_data_ready
                          /\ pm25_concentration = dataH * 128 + dataL
                          /\ ~header_found
                          /\ buffer_index = 0

C1_Witness ==
    /\ script.bytes = <<165, 1, 44, 82>>
    /\ fed = 4
    /\ pm25_data_ready
    /\ pm25_concentration = 172

\* what the bytes before the frame under test have published
PriorFrames == IF script.off = 4 THEN 1 ELSE 0
PriorConc == IF script.off = 4 THEN script.bytes[2] * 128 + script.bytes[3] ELSE 0

\* C2: a frame whose 4th byte differs from (header+dataH+dataL)&0x7F produces
\* no frame: while and after it is consumed pm25_concentration and
\* pm25_data_ready keep the values they had before it, after its 4th byte
\* the decoder is in SearchingHeader with index 0, and the well-formed frame
\* that starts at the very next byte is decoded.
C2_CorruptFrameDropped ==
    script.kind = "corrupt" =>
        LET o == script.off IN
        /\ (fed >= o /\ fed < o + 8) =>
              /\ frameCount = PriorFrames
              /\ pm25_concentration = PriorConc
              /\ pm25_data_ready = (PriorFrames = 1)
        /\ fed = o + 4 => (~header_found /\ buffer_index = 0)
        /\ fed = o + 8 =>
              /\ frameCount = PriorFrames + 1
              /\ pm25_data_ready
              /\ pm25_concentration = script.bytes[o + 6] * 128 + script.bytes[o + 7]
              /\ ~header_found
              /\ buffer_index = 0

C2_Witness ==
    /\ script.kind = "corrupt"
    /\ script.off = 4
    /\ script.bytes[8] = 165
    /\ fed = 12
    /\ frameCount = 2
    /\ pm25_concentration = 172

\* C9: calculateBatteryPercentage(v) is 0 for every v < 3000, 100 for every
\* v >= 4200 and within 0..100 for every input.
C9_PercentClamped ==
    /\ battery_percentage \in 0..100
    /\ battery_mV < 3000 => battery_percentage = 0
    /\ battery_mV >= 4200 => battery_percentage = 100

C9_Witness ==
    /\ battery_mV = 4200
    /\ battery_percentage = 100

\* C10: calculateBatteryPercentage is monotonically non-decreasing: a reading
\* that is not lower than the previous one never yields a lower percentage.
C10_PercentMonotone ==
    [][battery_mV' >= battery_mV => battery_percentage' >= battery_percentage]_vars

C10_Witness ==
    /\ battery_mV = 3600
    /\ battery_percentage = 20

\* milliseconds from the last trigger to the clock, the clock not having wrapped
ElapsedMs == (now[1] - lastMotionTime[1]) * 65536 + (now[2] - lastMotionTime[2])

\* C3: the expiry check of a tick keeps motion active while now - t0 <= 5000
\* and turns it inactive when now - t0 > 5000, t0 being the last trigger; an
\* inactive latch stays inactive over every tick.
C3_ExpiryAtTimeout ==
    [][lightSetTask => (isMove' = (isMove /\ ElapsedMs <= 5000))]_vars

C3_Witness ==
    /\ isMove
    /\ currentTime = now
    /\ ElapsedMs = 5000

\* C4: a trigger is never lost to the poller: the expiry check of
\* updateBrightness never clears isMove while the last trigger is at most
\* 5000 ms old, whatever interrupts fall between its steps.
C4_TriggerNeverLost ==
    [][(ls_pc = "check" /\ ls_pc' = "target" /\ isMove /\ ElapsedMs <= 5000) => isMove']_vars

\* C5: at the end of every tick targetBrightness is 255 when baseBrightness > 0
\* and motion is active after the expiry check, and baseBrightness otherwise;
\* at 500 lux or more it is 0 with or without motion.
C5_TargetSelection ==
    [][lightSetTask =>
          /\ targetBrightness' = IF baseBrightness' > 0 /\ isMove' THEN 255 ELSE baseBrightness'
          /\ lux >= 500 => targetBrightness' = 0]_vars

C5_Witness ==
    /\ currentTime = now
    /\ ElapsedMs = 4999
    /\ isMove
    /\ baseBrightness = 110
    /\ targetBrightness = 255

\* C6: phase Idle (neither isRising nor isFalling) implies
\* currentBrightness = targetBrightness, for any light and motion input.
C6_IdleAtTarget ==
    (~isRising /\ ~isFalling) => currentBrightness = targetBrightness

C6_Witness ==
    /\ ~isRising
    /\ ~isFalling
    /\ brightnessStep = 41
    /\ currentBrightness = 255
    /\ targetBrightness = 255

\* C7 as stated: once the output has reached 110 the phase is Idle.
C7_IdleWhenReached ==
    currentBrightness = 110 => (~isRising /\ ~isFalling)

\* C7 as amended: from 0 at 50 lux without motion the output never decreases,
\* never exceeds 110 and is exactly 110 after the 40th tick; the phase is
\* still Rising at the end of the tick that reaches 110 and Idle from the next
\* tick on, and further ticks leave the output at 110.
C7_RiseTo110 ==
    /\ [][currentBrightness' >= currentBrightness]_vars
    /\ [](currentBrightness <= 110)
    /\ [](brightnessStep = 40 => currentBrightness = 110)
    /\ [][(lightSetTask /\ currentBrightness < 110) =>
             (isRising' /\ ~isFalling' /\ brightnessStep' = brightnessStep + 1)]_vars
    /\ [][(lightSetTask /\ currentBrightness = 110) =>
             (currentBrightness' = 110 /\ ~isRising' /\ ~isFalling')]_vars

C7_Witness ==
    /\ lux = 50
    /\ brightnessStep = 40
    /\ currentBrightness = 110
    /\ ~isRising
    /\ ~isFalling

\* a tick in which motion raises the target to 255 while the controller is
\* rising toward a lower base brightness and has not reached it
MotionWhileRising ==
    /\ lightSetTask
    /\ isRising
    /\ ~isFalling
    /\ targetBrightness = baseBrightness
    /\ currentBrightness < targetBrightness
    /\ isMove'
    /\ targetBrightness' = 255

\* C8 as stated: that tick restarts the curve (the step counter from 0, so 1
\* after the tick's curve step, and stepStart = the output before the tick).
C8_RestartOnMotion ==
    [][MotionWhileRising =>
          (isRising' /\ brightnessStep' = 1 /\ startBrightness' = currentBrightness)]_vars

\* C8 as amended: that tick does not restart the curve; the phase stays
\* Rising, the step counter goes on from its value and stepStart stays the
\* start of the interrupted curve, only the target becomes 255.
C8_ContinueOnMotion ==
    [][MotionWhileRising =>
          /\ isRising'
          /\ ~isFalling'
          /\ brightnessStep' = brightnessStep + 1
          /\ startBrightness' = startBrightness]_vars

C8_Witness ==
    /\ isRising
    /\ isMove
    /\ baseBrightness = 110
    /\ targetBrightness = 255
    /\ startBrightness = 0
    /\ brightnessStep = 21
    /\ currentBrightness = 70

\* C11: every published concentration is at most 16383, whatever bytes arrive.
C11_ConcentrationInRange ==
    pm25_concentration <= 16383

\* C12 as stated: the bytes 00 00 A5 01 2C 9E give exactly one valid frame.
C12_OneFrameWith9E ==
    (script.bytes = <<0, 0, 165, 1, 44, 158>> /\ fed = 6) => frameCount = 1

\* C12 as amended: the bytes 00 00 A5 01 2C 52 (0x52 = (0xA5 + 0x01 + 0x2C) &
\* 0x7F) give exactly one valid frame, of concentration 172; the two leading
\* zero bytes leave the decoder searching, and with any other 4th byte of the
\* frame no frame is accepted.
C12_HeaderAmidNoise ==
    script.kind = "noise" =>
        /\ fed <= 2 => (~header_found /\ buffer_index = 0 /\ frameCount = 0)
        /\ fed \in 3..5 => (header_found /\ buffer_index = fed - 2 /\ frameCount = 0)
        /\ fed = 6 =>
              /\ ~header_found
              /\ buffer_index = 0
              /\ IF script.bytes[6] = 82
                 THEN frameCount = 1 /\ pm25_data_ready /\ pm25_concentration = 172
                 ELSE frameCount = 0 /\ ~pm25_data_ready /\ pm25_concentration = 0

C12_Witness ==
    /\ script.bytes = <<0, 0, 165, 1, 44, 82>>
    /\ fed = 6
    /\ frameCount = 1
    /\ pm25_concentration = 172

\* the concentration carried by the k-th of the back-to-back frames
SentConc(k) ==
    LET at == script.off + 4 * (k - 1)
    IN  script.bytes[at + 2] * 128 + script.bytes[at + 3]

\* C17: whatever was fed before, of well-formed frames sent back to back the
\* decoder misses at most the first: when the 2nd is complete its concentration
\* is published and the decoder is searching again, it stays published until
\* the 3rd is complete, and then the 3rd's is published.
C17_ResyncWithinOneFrame ==
    script.kind = "resync" =>
        /\ fed \in (script.off + 8)..(script.off + 11) =>
              (pm25_data_ready /\ pm25_concentration = SentConc(2) /\ frameCount >= 1)
        /\ fed = script.off + 8 => (~header_found /\ buffer_index = 0)
        /\ fed = script.off + 12 =>
              /\ pm25_data_ready
              /\ pm25_concentration = SentConc(3)
              /\ frameCount >= 2
              /\ ~header_found
              /\ buffer_index = 0

\* a frame cut off after two bytes, the first full frame lost, the other two decoded
C17_Witness ==
    /\ script.kind = "resync"
    /\ script.off = 2
    /\ fed = 14
    /\ frameCount = 2
    /\ pm25_concentration = SentConc(3)

\* C13: a clear makes motion inactive and leaves lastMotionTime unchanged, and
\* a tick that finds motion inactive leaves it inactive and takes the base
\* brightness as target, however little time has passed since the trigger.
C13_ClearOverridesTimeout ==
    /\ [][key2ISR => (~isMove' /\ lastMotionTime' = lastMotionTime)]_vars
    /\ [][(lightSetTask /\ ~isMove) =>
             (~isMove' /\ targetBrightness' = baseBrightness')]_vars

\* trigger and clear in the same millisecond, then a tick, in the dark
C13_Witness ==
    /\ now # U32(0)
    /\ lastMotionTime = now
    /\ currentTime = now
    /\ ~isMove
    /\ baseBrightness = 110
    /\ targetBrightness = 110

\* C14: calculateBaseBrightness(lux) is 0 for lux >= 500, 50 for 300 <= lux <
\* 500, 80 for 100 <= lux < 300, 110 for lux < 100, negative lux included, and
\* baseBrightness is always one of 0, 50, 80, 110.
C14_BaseBrackets ==
    /\ baseBrightness \in {0, 50, 80, 110}
    /\ ls_pc = "check" =>
          /\ lux >= 500 => baseBrightness = 0
          /\ (300 <= lux /\ lux < 500) => baseBrightness = 50
          /\ (100 <= lux /\ lux < 300) => baseBrightness = 80
          /\ lux < 100 => baseBrightness = 110

C14_Witness ==
    /\ ls_pc = "check"
    /\ lux = -1
    /\ baseBrightness = 110

\* the inputs of a tick are those of the tick before: the reading is in the
\* bracket of baseBrightness and the motion status is the one the target was
\* chosen with
SameInputs ==
    /\ baseBrightness = (IF lux >= 500 THEN 0 ELSE IF lux >= 300 THEN 50
                         ELSE IF lux >= 100 THEN 80 ELSE 110)
    /\ targetBrightness = (IF baseBrightness > 0 /\ isMove THEN 255 ELSE baseBrightness)

\* C15: in phase Idle a tick with the same lux bracket and the same motion
\* status leaves currentBrightness and the phase as they were.
C15_IdleTickNoOp ==
    [][(~isRising /\ ~isFalling /\ SameInputs /\ lightSetTask) =>
          (currentBrightness' = currentBrightness /\ ~isRising' /\ ~isFalling')]_vars

C15_Witness ==
    /\ ~isRising
    /\ ~isFalling
    /\ SameInputs
    /\ lux = 50
    /\ isMove
    /\ currentBrightness = 255
    /\ leds = 255

\* C16: with isAuto false a cycle of lightSetTask writes brightness to the
\* LEDs and leaves currentBrightness, targetBrightness, baseBrightness, the
\* phase flags, the step counter and startBrightness unchanged.
C16_ManualBypassesController ==
    [][(lightSetTask /\ ~isAuto) =>
          /\ leds' = brightness
          /\ UNCHANGED <<currentBrightness, targetBrightness, baseBrightness,
                         isRising, isFalling, brightnessStep, startBrightness>>]_vars

\* a manual cycle in the middle of a rise
C16_Witness ==
    /\ ~isAuto
    /\ brightness = 127
    /\ leds = 127
    /\ isRising
    /\ targetBrightness = 255
    /\ currentBrightness = 70

LastMs(t) == t[1] * 65536 + t[2]

\* C19: lastMotionTime never decreases; it changes only in a trigger, which
\* stores the clock; clear and expiry leave it unchanged.
C19_LastMotionTimeMonotone ==
    /\ [][LastMs(lastMotionTime') >= LastMs(lastMotionTime)]_vars
    /\ [][lastMotionTime' # lastMotionTime => (isMove' /\ lastMotionTime' = now)]_vars
    /\ [][(key2ISR \/ ls_expire) => lastMotionTime' = lastMotionTime]_vars

\* a trigger at 5001 ms, later cleared by the expiry check or by key2
C19_Witness ==
    /\ LastMs(lastMotionTime) = 5001
    /\ ~isMove

\* the anchors of the discharge curve
Anchors ==
    <<<<3000, 0>>, <<3300, 5>>, <<3600, 20>>, <<3700, 40>>, <<3800, 60>>,
      <<4000, 85>>, <<4200, 100>>>>

\* C20: the percentage is the anchor's at every anchor, and between adjacent
\* anchors (v0,p0) and (v1,p1) it is p0 + floor((v - v0) * (p1 - p0) / (v1 - v0)).
C20_PiecewiseLinear ==
    \A i \in 1..6 :
        LET v0 == Anchors[i][1]
            p0 == Anchors[i][2]
            v1 == Anchors[i + 1][1]
            p1 == Anchors[i + 1][2]
        IN  (v0 <= battery_mV /\ battery_mV <= v1) =>
                battery_percentage = p0 + ((battery_mV - v0) * (p1 - p0)) \div (v1 - v0)

C20_Witness ==
    /\ battery_mV = 3750
    /\ battery_percentage = 50

\* the decoder's own state
DecoderState == <<header_found, buffer_index, rx_buffer>>

\* C21: after every byte the decoder is either searching with fill index 0 or
\* accumulating with fill index 1..3, so every write falls inside the 4-byte
\* buffer; the byte that completes a packet returns it to searching with
\* index 0, whether the packet was accepted or not.
C21_IndexInBuffer ==
    /\ [](IF header_found THEN buffer_index \in 1..3 ELSE buffer_index = 0)
    /\ [](DOMAIN rx_buffer = 0..3)
    /\ [][(header_found /\ buffer_index = 3 /\ rxq' # rxq /\ arrived' = arrived) =>
             (~header_found' /\ buffer_index' = 0)]_vars

\* a rejected packet behind two bytes of noise: searching again with index 0
C21_Witness ==
    /\ script.kind = "noise"
    /\ script.bytes[6] # 82
    /\ fed = 6
    /\ frameCount = 0
    /\ ~header_found
    /\ buffer_index = 0

\* C22: while searching, a byte other than the header changes neither the
\* decoder state nor the published concentration and flag; entering and
\* leaving pm25_update (all there is to a call with no pending byte) changes
\* none of them either.
C22_NonHeaderIgnored ==
    /\ [][(~header_found /\ rxq # <<>> /\ Head(rxq) # 165 /\ pm25_update_byte) =>
             UNCHANGED <<DecoderState, pm25_concentration, pm25_data_ready, frameCount>>]_vars
    /\ [][(pm25_update_call \/ pm25_update_return) =>
             UNCHANGED <<DecoderState, pm25_concentration, pm25_data_ready, frameCount>>]_vars

\* two zero bytes consumed inside one call, the decoder untouched
C22_Witness ==
    /\ script.kind = "noise"
    /\ fed = 2
    /\ pm25_pc = "loop"
    /\ ~header_found
    /\ buffer_index = 0
    /\ rx_buffer = [i \in 0..3 |-> 0]

\* C23: a misplaced header (one, two or three bytes of a cut-off frame ahead of
\* a real frame) makes the 4 bytes starting at it one invalid frame: nothing
\* is accepted or published when those 4 bytes are complete.
C23_FalseHeaderFrameInvalid ==
    (script.kind = "resync" /\ script.off \in 1..3 /\ fed = 4) =>
        (frameCount = 0 /\ ~pm25_data_ready /\ pm25_concentration = 0)

\* C24: a tick that finds the new target on the other side of the output while
\* a curve runs (rising with target below the output, falling with target
\* above it) ends in the opposite phase with the old output as start value and
\* the step counter at 1, the output being the first step of the new curve
\* from that start value: the counter was reset to 0 and the start recorded
\* before the curve was evaluated.
C24_ReversalRestarts ==
    /\ [][(isRising /\ targetBrightness' < currentBrightness /\ lightSetTask) =>
             /\ isFalling' /\ ~isRising'
             /\ brightnessStep' = 1
             /\ startBrightness' = currentBrightness
             /\ \E x \in ScaledDelta(currentBrightness - targetBrightness',
                                     FallingProgress(1)) :
                    currentBrightness' = currentBrightness - x]_vars
    /\ [][(isFalling /\ targetBrightness' > currentBrightness /\ lightSetTask) =>
             /\ isRising' /\ ~isFalling'
             /\ brightnessStep' = 1
             /\ startBrightness' = currentBrightness
             /\ \E x \in ScaledDelta(targetBrightness' - currentBrightness,
                                     RisingProgress(1)) :
                    currentBrightness' = currentBrightness + x]_vars

\* a fall from 255 towards 110 turned into a rise by a trigger
C24_Witness ==
    /\ isRising
    /\ ~isFalling
    /\ brightnessStep = 1
    /\ startBrightness \in 111..254
    /\ targetBrightness = 255
    /\ currentBrightness = startBrightness

\* C25 as stated: in the rising phase the output is the start value plus
\* (target - start) * (step/40)^2 rounded to the nearest integer.
C25_RisingRounded ==
    isRising =>
        LET d == targetBrightness - startBrightness
            s == brightnessStep
        IN  /\ s \in 1..BRIGHTNESS_UP_STEPS
            /\ currentBrightness = startBrightness + (2 * d * s * s + 1600) \div 3200

\* the differences and step counts at which (target - start) * (step/40)^2 is
\* an integer and the single-precision product falls just below it
RisingShort == {<<100, 28>>, <<100, 36>>, <<200, 28>>, <<200, 36>>}

\* C25 as amended: in the rising phase the step counter is in 1..40 and the
\* output is the start value plus (target - start) * (step/40)^2 truncated to
\* an integer, the product being the single-precision one: the floor of the
\* exact product, and one less than it for the pairs of RisingShort.
C25_RisingTruncated ==
    isRising =>
        LET d == targetBrightness - startBrightness
            s == brightnessStep
            f == (d * s * s) \div 1600
        IN  /\ s \in 1..BRIGHTNESS_UP_STEPS
            /\ d \in 1..255
            /\ currentBrightness =
                   startBrightness + (IF <<d, s>> \in RisingShort THEN f - 1 ELSE f)

\* half way up from 0 to 255: 255 * 0.25 = 63.75 gives 63
C25_Witness ==
    /\ isRising
    /\ startBrightness = 0
    /\ targetBrightness = 255
    /\ brightnessStep = 20
    /\ currentBrightness = 63

\* C26: in the falling phase the output is the start value minus
\* (start - target) * (1 - (1 - step/60)^2) truncated to an integer (one less
\* only where the exact product is an integer and the single-precision one
\* falls just below it), it is not below the target, and at step 60 it is the
\* target; over a tick that keeps the target the output does not increase, the
\* tick after step 60 ends Idle with the output at the target, and Idle ticks
\* with the same target leave it there.
C26_FallToTarget ==
    /\ [](isFalling =>
            LET d == startBrightness - targetBrightness
                s == brightnessStep
                e == d * (3600 - (60 - s) * (60 - s))
                x == startBrightness - currentBrightness
            IN  /\ s \in 1..BRIGHTNESS_DOWN_STEPS
                /\ currentBrightness >= targetBrightness
                /\ x = e \div 3600 \/ (x = e \div 3600 - 1 /\ e % 3600 = 0)
                /\ s = BRIGHTNESS_DOWN_STEPS => currentBrightness = targetBrightness)
    /\ [][(isFalling /\ targetBrightness' = targetBrightness /\ lightSetTask) =>
             (currentBrightness' <= currentBrightness
                 /\ currentBrightness' >= targetBrightness)]_vars
    /\ [][(isFalling /\ brightnessStep = BRIGHTNESS_DOWN_STEPS
             /\ targetBrightness' = targetBrightness /\ lightSetTask) =>
             (~isFalling' /\ ~isRising' /\ currentBrightness' = targetBrightness)]_vars
    /\ [][(~isFalling /\ ~isRising /\ targetBrightness' = targetBrightness
             /\ lightSetTask) =>
             (~isFalling' /\ ~isRising' /\ currentBrightness' = currentBrightness)]_vars

\* the fall from 255 to 110 after a clear, complete and Idle
C26_Witness ==
    /\ ~isMove
    /\ ~isFalling
    /\ ~isRising
    /\ startBrightness = 255
    /\ brightnessStep = 60
    /\ targetBrightness = 110
    /\ currentBrightness = 110

\* C27: the output, the target, the base and the start value are 8-bit values;
\* in the rising phase start <= output <= target and in the falling phase
\* target <= output <= start, so the difference scaled by the progress is
\* taken of a non-negative number, the truncated product is in 0..255 and the
\* output never wraps.
C27_OutputBetweenStartAndTarget ==
    /\ currentBrightness \in 0..255
    /\ targetBrightness \in 0..255
    /\ baseBrightness \in 0..255
    /\ startBrightness \in 0..255
    /\ isRising =>
          (startBrightness <= currentBrightness /\ currentBrightness <= targetBrightness)
    /\ isFalling =>
          (targetBrightness <= currentBrightness /\ currentBrightness <= startBrightness)
    /\ ~(isRising /\ isFalling)

\* half way down from 255 to 110
C27_Witness ==
    /\ isFalling
    /\ startBrightness = 255
    /\ targetBrightness = 110
    /\ brightnessStep = 30
    /\ currentBrightness = 147

\* C28: the step counter is always in 0..61, in 1..40 at the end of a tick
\* that leaves the rising phase on and in 1..60 at the end of one that leaves
\* the falling phase on; the tick that takes it from 40 to 41 while rising, or
\* from 60 to 61 while falling, sets the output to the target and ends Idle.
C28_StepCounterBounded ==
    /\ [](brightnessStep \in 0..(BRIGHTNESS_DOWN_STEPS + 1))
    /\ [](isRising => brightnessStep \in 1..BRIGHTNESS_UP_STEPS)
    /\ [](isFalling => brightnessStep \in 1..BRIGHTNESS_DOWN_STEPS)
    /\ [][(isRising /\ brightnessStep' = BRIGHTNESS_UP_STEPS + 1) =>
             (brightnessStep = BRIGHTNESS_UP_STEPS
                 /\ currentBrightness' = targetBrightness'
                 /\ ~isRising' /\ ~isFalling')]_vars
    /\ [][(isFalling /\ brightnessStep' = BRIGHTNESS_DOWN_STEPS + 1) =>
             (brightnessStep = BRIGHTNESS_DOWN_STEPS
                 /\ currentBrightness' = targetBrightness'
                 /\ ~isRising' /\ ~isFalling')]_vars

\* a fall that had reached its target at step 60 and met a lower target
C28_Witness ==
    /\ ~isFalling
    /\ ~isRising
    /\ brightnessStep = 61
    /\ currentBrightness = targetBrightness

\* C29 as stated: a tick in which the target changes leaves the step counter
\* at 1.
C29_TargetChangeRestarts ==
    [][(targetBrightness' # targetBrightness /\ lightSetTask) => brightnessStep' = 1]_vars

\* C29 as amended: every tick takes the base brightness from the light level
\* it finds, then expires the motion flag, then selects the target from that
\* base and that flag, then decides on a restart against that target and then
\* takes at most one curve step.  A tick whose target lies above the output
\* while not rising, or below it while not falling, starts the new curve and
\* advances it once: it ends with the old output as start value and the step
\* counter at 1.  A tick whose target changed in the direction of the running
\* curve uses the new target at once and continues the count.
C29_TickOrder ==
    [][lightSetTask =>
          LET base == calculateBaseBrightness(lux)
              move == isMove /\ ElapsedMs <= 5000
              tgt == IF base > 0 /\ move THEN BRIGHTNESS_MAX ELSE base
              cur == currentBrightness
          IN  /\ baseBrightness' = base
              /\ isMove' = move
              /\ targetBrightness' = tgt
              /\ ((tgt > cur /\ ~isRising) \/ (tgt < cur /\ ~isFalling)) =>
                    /\ isRising' = (tgt > cur)
                    /\ isFalling' = (tgt < cur)
                    /\ startBrightness' = cur
                    /\ brightnessStep' = 1
              /\ ((tgt > cur /\ isRising) \/ (tgt < cur /\ isFalling)) =>
                    /\ startBrightness' = startBrightness
                    /\ brightnessStep' = brightnessStep + 1
              /\ tgt = cur =>
                    /\ ~isRising' /\ ~isFalling'
                    /\ currentBrightness' = cur
                    /\ brightnessStep' = brightnessStep]_vars

\* the tick that finds the timeout expired above the base brightness: the
\* flag is cleared, the target is the base and the fall is at its first step
C29_Witness ==
    /\ currentTime = now
    /\ ElapsedMs = 5001
    /\ ~isMove
    /\ baseBrightness = 110
    /\ targetBrightness = 110
    /\ isFalling
    /\ brightnessStep = 1
    /\ startBrightness > 110

\* C30: the motion flag turns false only by key2ISR or by the expiry check of
\* an auto-mode tick that finds the last trigger more than 5000 ms old, and
\* such a tick does turn it false; the passing of time and the ticks of manual
\* mode leave the flag as it is.
C30_LazyExpiry ==
    /\ [][(isMove /\ ~isMove') =>
             (key2ISR \/ (isAuto /\ ElapsedMs > 5000 /\ lightSetTask))]_vars
    /\ [][(isAuto /\ isMove /\ ElapsedMs > 5000 /\ lightSetTask) => ~isMove']_vars
    /\ [][(AdvanceClock \/ (~isAuto /\ lightSetTask)) => isMove' = isMove]_vars

\* manual mode at 50 %, the trigger 5001 ms old and the flag still set
C30_Witness ==
    /\ ~isAuto
    /\ brightness = 127
    /\ leds = 127
    /\ isMove
    /\ ElapsedMs = 5001

\* C31: set_brightness with a percentage p in 0..100 sets the manual
\* brightness to p * 255 / 100 (0 for 0, 255 for 100) and the mode to manual;
\* with p outside 0..100 it changes neither; set_auto_mode sets the mode flag
\* and leaves the manual brightness; no command touches the controller, the
\* motion flag or the LED output.
C31_CommandEffects ==
    /\ [][\A p \in PercentSamples : (mqtt_callback /\ set_brightness(p)) =>
             IF p \in 0..100
             THEN brightness' = (p * 255) \div 100 /\ ~isAuto'
             ELSE brightness' = brightness /\ isAuto' = isAuto]_vars
    /\ [][\A a \in BOOLEAN : (mqtt_callback /\ set_auto_mode(a)) =>
             (isAuto' = a /\ brightness' = brightness)]_vars
    /\ [][mqtt_callback => UNCHANGED <<motionVars, curveVars, leds, lux>>]_vars
    /\ [](brightness \in 0..255)
    /\ MapPercent(0) = 0
    /\ MapPercent(100) = 255

\* 25 % commanded and shown: 25 * 255 / 100 = 63
C31_Witness ==
    /\ ~isAuto
    /\ brightness = 63
    /\ leds = 63

\* C32: isRising and isFalling are never both true, whatever the light
\* readings, triggers and clears between the ticks.
C32_PhaseFlagsExclusive ==
    ~(isRising /\ isFalling)

\* a rise turned into a fall towards 0 by a bright reading
C32_Witness ==
    /\ isFalling
    /\ ~isRising
    /\ brightnessStep = 1
    /\ targetBrightness = 0
    /\ startBrightness \in 1..254
    /\ lux = 500

\* C33: over a tick that begins and ends in the rising phase the output does
\* not decrease, and over one that begins and ends in the falling phase it
\* does not increase.
C33_MonotoneInPhase ==
    /\ [][(isRising /\ isRising' /\ lightSetTask) =>
             currentBrightness' >= currentBrightness]_vars
    /\ [][(isFalling /\ isFalling' /\ lightSetTask) =>
             currentBrightness' <= currentBrightness]_vars

\* C34: a tick that finds the output at the old target and selects a
\* different target starts a new curve: it ends with the step counter at 1,
\* the old output as start value and the output short of the new target.
C34_FreshCurveFromTarget ==
    [][(currentBrightness = targetBrightness /\ targetBrightness' # targetBrightness
          /\ lightSetTask) =>
          /\ brightnessStep' = 1
          /\ startBrightness' = currentBrightness
          /\ currentBrightness' # targetBrightness']_vars

\* a clock value of the run as a signed distance in ms from the wrap of the
\* counter: negative before it, 0 and up after it
FromWrap(t) == IF t[1] = TwoTo16 - 1 THEN t[2] - TwoTo16 ELSE t[1] * TwoTo16 + t[2]

\* C35: with the trigger at t0 and the tick at now, t0 before and now before
\* or after the wrap of the 32-bit clock, the tick keeps motion active while
\* the time passed is at most 5000 ms and expires it when it is more.
C35_ExpiryAcrossWrap ==
    [][(isMove /\ lightSetTask) =>
          (isMove' = (FromWrap(now) - FromWrap(lastMotionTime) <= 5000))]_vars

\* a trigger 1 ms before the wrap, expired by the tick at 5000 ms after it
C35_Witness ==
    /\ lastMotionTime = <<TwoTo16 - 1, TwoTo16 - 1>>
    /\ now = U32(5000)
    /\ currentTime = now
    /\ ~isMove

\* the controller at rest at the base brightness
Settled ==
    /\ ~isMove
    /\ ~isRising
    /\ ~isFalling
    /\ currentBrightness = baseBrightness
    /\ targetBrightness = baseBrightness
    /\ leds = baseBrightness

C37_AttemptsSpaced ==
    [][(lastAttempt # -1 /\ (\E t \in MqttTasks : mqttConnect_start(t))) =>
          Abs(lastAttempt' - lastAttempt) >= ConnectInterval]_vars

\* C38: once the retry limit has been reached, by the third failure in a row
\* or by a refusal of the credentials, the next attempt is decided at least
\* 60000 ms after the attempt that reached it; the limit itself is reached
\* later than that attempt was decided, when its connect returns.
C38_PauseAfterLimit ==
    [][(limitReached /\ (\E t \in MqttTasks : mqttConnect_start(t))) =>
          lastAttempt' - lastAttempt >= RetryPause]_vars

====
